---- MODULE Spec2Model ----
(***************************************************************************)
(* Model of the sign-in block (blocks/sign-in/sign-in.js).                 *)
(*                                                                         *)
(* Strings that the code inspects character by character (the entered      *)
(* email, the password, the stored registered email) are sequences of      *)
(* one-character strings, so that trim, the email regular expression, the  *)
(* sanitising replace and toLowerCase are computed, not assumed.  Message  *)
(* texts are only ever compared as a whole and stay TLA+ strings.          *)
(*                                                                         *)
(* The submit listener is declared async but contains no await, so one     *)
(* submission runs to completion as one step.  The callbacks registered    *)
(* with setTimeout are separate steps.  setTimeout only guarantees a       *)
(* minimum delay, so a pending callback may run at any later step; the     *)
(* delay is kept in the timer record.                                      *)
(***************************************************************************)
EXTENDS Naturals, Sequences, FiniteSets

\* ------------------------------------------------------------------ bounds
\* Number of submit events delivered to the listener in one page life.
MaxSubmits == 2

\* Longest string handed to isValidEmail when it is checked on its own.
MaxEmailLen == 6

\* Most path segments of window.location.pathname when the registration
\* link is checked on its own.
MaxSegments == 3

\* ------------------------------------------------------- program constants
REGISTERED_EMAIL_KEY == "com.adobe.reactor.dataElements.Profile - Email"
LOGGED_IN_KEY == "luma_user_logged_in"
ERROR_DISMISS_MS == 5000
REDIRECT_MS == 1500
REDIRECT_TARGET == "/"

MSG_FIELDS == "Form fields not found"
MSG_INVALID_EMAIL == "Please enter a valid email address"
MSG_EMPTY_PASSWORD == "Please enter your password"
MSG_NO_ACCOUNT == "No account found. Please create an account first."
MSG_MISMATCH == "Email not found. Please check your email or create an account."
MSG_SUCCESS == "Sign-in successful! Redirecting..."
MSG_FAILED == "Sign-in failed. Please try again."

\* "true", the value stored under LOGGED_IN_KEY.
TRUE_STR == <<"t", "r", "u", "e">>

\* The form definition handed to the renderer has an email input, a password
\* input and a submit button.
SubmitButtonPresent == TRUE

\* ---------------------------------------------------------- string helpers
\* Characters matched by \s and removed by String.prototype.trim.
WhiteSpace == {" ", "\t"}

\* Characters removed by .replace(/[\*\"\']/g, "").
StrippedChars == {"*", "\"", "'"}

RECURSIVE TrimStart(_)
TrimStart(s) ==
  IF s # <<>> /\ Head(s) \in WhiteSpace THEN TrimStart(Tail(s)) ELSE s

RECURSIVE TrimEnd(_)
TrimEnd(s) ==
  IF s # <<>> /\ s[Len(s)] \in WhiteSpace
    THEN TrimEnd(SubSeq(s, 1, Len(s) - 1))
    ELSE s

\* String.prototype.trim
Trim(s) == TrimEnd(TrimStart(s))

\* One character of String.prototype.toLowerCase.
LowerChar(c) ==
  CASE c = "A" -> "a"
    [] c = "B" -> "b"
    [] c = "C" -> "c"
    [] OTHER -> c

\* String.prototype.toLowerCase
ToLowerCase(s) == [i \in 1..Len(s) |-> LowerChar(s[i])]

\* [^\s@]+ over s[from..to]
IsAtomRun(s, from, to) ==
  /\ from <= to
  /\ \A k \in from..to : s[k] \notin WhiteSpace /\ s[k] # "@"

\* Mutant: the pattern lacks the dot and the part after it,
\* /^[^\s@]+@[^\s@]+$/.
EmailRegexTest_NoDot(s) ==
  \E i \in 1..Len(s) :
    /\ s[i] = "@"
    /\ IsAtomRun(s, 1, i - 1)
    /\ IsAtomRun(s, i + 1, Len(s))

\* /^[^\s@]+@[^\s@]+\.[^\s@]+$/.test(s)
EmailRegexTest(s) ==
  \E i \in 1..Len(s) : \E j \in 1..Len(s) :
    /\ s[i] = "@"
    /\ s[j] = "."
    /\ IsAtomRun(s, 1, i - 1)
    /\ IsAtomRun(s, i + 1, j - 1)
    /\ IsAtomRun(s, j + 1, Len(s))

\* A JavaScript value: its typeof (null kept apart from "object"), whether it
\* is neither null nor undefined, and its text (the characters of a string,
\* the digits of a number, "true" or "false" for a boolean).
Null == [type |-> "null", present |-> FALSE, value |-> <<>>]
Str(s) == [type |-> "string", present |-> TRUE, value |-> s]
Undefined == [type |-> "undefined", present |-> FALSE, value |-> <<>>]
Num(digits) == [type |-> "number", present |-> TRUE, value |-> digits]
Bool(text) == [type |-> "boolean", present |-> TRUE, value |-> text]
Obj == [type |-> "object", present |-> TRUE, value |-> <<>>]

\* Truthiness: null, undefined, "", 0 and false are falsy.
Truthy(v) ==
  CASE v.type = "string" -> v.value # <<>>
    [] v.type = "number" -> v.value # <<"0">>
    [] v.type = "boolean" -> v.value = TRUE_STR
    [] v.type = "object" -> TRUE
    [] OTHER -> FALSE

\* isValidEmail(email)
isValidEmail(v) ==
  IF ~Truthy(v) \/ v.type # "string"
    THEN FALSE
    ELSE EmailRegexTest(Trim(v.value))

StripChar(c) == c \notin StrippedChars

\* Mutant: the stored value is trimmed but keeps its asterisks and quotes.
CleanRegistered_TrimOnly(v) ==
  IF Truthy(v) THEN Str(Trim(v.value)) ELSE v

\* registeredEmail.replace(/[\*\"\']/g, "").trim(), applied only to a truthy
\* value; null and "" pass through unchanged.
CleanRegistered(v) ==
  IF Truthy(v) THEN Str(Trim(SelectSeq(v.value, StripChar))) ELSE v

\* enteredPassword is empty or whitespace only.
PasswordEmpty(p) == p = <<>> \/ Trim(p) = <<>>

\* ------------------------------------------------------- registration link
SIGN_IN == <<"/", "s", "i", "g", "n", "-", "i", "n">>
DOT_HTML == <<".", "h", "t", "m", "l">>
SIGN_IN_HTML == SIGN_IN \o DOT_HTML
REGISTRATION == <<"/", "r", "e", "g", "i", "s", "t", "r", "a", "t", "i", "o", "n">>
REGISTRATION_HTML == REGISTRATION \o DOT_HTML

\* pat occurs in s at position i.
OccursAt(s, pat, i) ==
  /\ i >= 1
  /\ i + Len(pat) - 1 <= Len(s)
  /\ SubSeq(s, i, i + Len(pat) - 1) = pat

\* s with the n characters from position i on replaced by r.
Splice(s, i, n, r) == SubSeq(s, 1, i - 1) \o r \o SubSeq(s, i + n, Len(s))

\* s.replace(pat, r) for a string pat: the first occurrence of pat, wherever
\* it is, is replaced; without an occurrence s is returned.
ReplaceString(s, pat, r) ==
  LET hits == {i \in 1..Len(s) : OccursAt(s, pat, i)}
  IN  IF hits = {}
        THEN s
        ELSE Splice(s, CHOOSE i \in hits : \A k \in hits : i <= k, Len(pat), r)

\* s.replace(/\/sign-in(\.html)?$/, r): the leftmost position from which
\* "/sign-in", optionally followed by ".html", reaches the end of s.
ReplaceSignInAtEnd(s, r) ==
  LET hits == {i \in 1..Len(s) :
                 \/ OccursAt(s, SIGN_IN_HTML, i)
                      /\ i + Len(SIGN_IN_HTML) - 1 = Len(s)
                 \/ OccursAt(s, SIGN_IN, i)
                      /\ i + Len(SIGN_IN) - 1 = Len(s)}
  IN  IF hits = {}
        THEN s
        ELSE LET i == CHOOSE h \in hits : \A k \in hits : h <= k
             IN  Splice(s, i, Len(s) - i + 1, r)

\* registrationPath of addCreateAccountLink.
RegistrationPath(path, author) ==
  IF author
    THEN ReplaceString(path, SIGN_IN_HTML, REGISTRATION_HTML)
    ELSE ReplaceSignInAtEnd(path, REGISTRATION)

\* ------------------------------------------------------------------ inputs
\* Segments of window.location.pathname.
PathSegments ==
  { <<"/", "e", "n">>, SIGN_IN, SIGN_IN_HTML, <<"/">> }

RECURSIVE PathsOf(_)
PathsOf(n) ==
  IF n = 0 THEN {<<>>}
  ELSE {p \o g : p \in PathsOf(n - 1), g \in PathSegments}

PathInputs == UNION {PathsOf(n) : n \in 1..MaxSegments}

\* The path of the page in the runs that are about submissions.
DefaultPath == <<"/", "e", "n">> \o SIGN_IN

\* Values handed to isValidEmail when it is checked on its own.
EmailAlphabet == {"a", "@", ".", " "}
EmailStrings == UNION {[1..n -> EmailAlphabet] : n \in 0..MaxEmailLen}
EmailArgs ==
  {Str(x) : x \in EmailStrings}
    \cup {Null, Undefined, Num(<<"0">>), Num(<<"5">>), Bool(TRUE_STR), Obj}

\* Values typed into the email field.
EmailInputs ==
  { <<"a", "@", "b", ".", "c">>,
    <<"A", "@", "b", ".", "c">>,
    <<" ", "a", "@", "b", ".", "c", " ">>,
    <<"b", "@", "b", ".", "c">>,
    <<"a", "b", ".", "c">>,
    <<"a", "@", "b", "c">>,
    <<>> }

\* Values typed into the password field.
PasswordInputs == { <<>>, <<" ">>, <<"p">>, <<"q", " ">> }

\* Values the registration flow may have left under REGISTERED_EMAIL_KEY
\* before the page was opened; the block itself never writes that key.
RegisteredValues ==
  { Null,
    Str(<<>>),
    Str(<<"*", "\"">>),
    Str(<<" ", "\"", "a", "@", "b", ".", "c", "\"", " ">>),
    Str(<<"*", "A", "@", "b", ".", "c", "'">>),
    Str(<<"b", "@", "b", ".", "c">>),
    Str(<<"a", "@", "b", "c">>) }

StorageKeys == {REGISTERED_EMAIL_KEY, LOGGED_IN_KEY}

\* ------------------------------------------------------------------- state
VARIABLES
  localStorage,    \* key -> null or string
  fieldsPresent,   \* the rendered form has input[name=email] and input[name=password]
  formMsgs,        \* the .form-message elements currently inside the form
  nextId,          \* identity of the next created element or timer
  timers,          \* callbacks registered with setTimeout and not yet run
  submitDisabled,  \* button[type=submit].disabled
  focus,           \* field focused by the listener: "none", "email", "password"
  events,          \* "login" events dispatched on document, oldest first
  setItemLog,      \* localStorage.setItem calls that completed, oldest first
  location,        \* window.location: "page" until the redirect, then "/"
  navigations,     \* number of assignments to window.location.href
  submits,         \* number of submit events handled
  accepted,        \* number of submissions that passed all four checks
  acceptedStored,  \* ... of which the flag write completed
  last,            \* record of the most recent submission
  storageBlocked,  \* reading window.localStorage throws (storage access denied)
  unhandled,       \* listener runs that ended in an uncaught exception
  staleFired,      \* some dismiss callback ran on an element already removed
  currentPath,     \* window.location.pathname
  isAuthor,        \* isAuthorEnvironment()
  linkHref,        \* href of the "Create an account" link, once it is added
  emailArg,        \* argument of a call of isValidEmail on its own
  emailResult      \* what that call returned

vars ==
  << localStorage, fieldsPresent, formMsgs, nextId, timers, submitDisabled,
     focus, events, setItemLog, location, navigations, submits, accepted,
     acceptedStored, last, storageBlocked, unhandled, staleFired,
     currentPath, isAuthor, linkHref, emailArg, emailResult >>

\* The part of the state the submit listener and its timers work on.
pageVars ==
  << localStorage, fieldsPresent, formMsgs, nextId, timers, submitDisabled,
     focus, events, setItemLog, location, navigations, submits, accepted,
     acceptedStored, last, storageBlocked, unhandled, staleFired >>

linkVars == <<currentPath, isAuthor, linkHref>>
callVars == <<emailArg, emailResult>>

NoSubmission ==
  [ handled |-> FALSE, emailValue |-> <<>>, passwordValue |-> <<>>,
    stored |-> Null, writeFailed |-> FALSE, failedAt |-> "none",
    outcome |-> "None", message |-> "", msgId |-> 0 ]

NoLink == [added |-> FALSE, href |-> <<>>]
Link(h) == [added |-> TRUE, href |-> h]
NoCall == [called |-> FALSE, value |-> FALSE]
Returned(b) == [called |-> TRUE, value |-> b]

\* The page once decorate's setTimeout callback has attached the listener.
PageInit ==
  /\ localStorage \in
       { [k \in StorageKeys |->
            IF k = REGISTERED_EMAIL_KEY THEN r ELSE f] :
         r \in RegisteredValues, f \in {Null, Str(TRUE_STR)} }
  /\ fieldsPresent \in BOOLEAN
  /\ formMsgs = {}
  /\ nextId = 1
  /\ timers = {}
  /\ submitDisabled = FALSE
  /\ focus = "none"
  /\ events = <<>>
  /\ setItemLog = <<>>
  /\ location = "page"
  /\ navigations = 0
  /\ submits = 0
  /\ accepted = 0
  /\ acceptedStored = 0
  /\ last = NoSubmission
  /\ storageBlocked \in BOOLEAN
  /\ unhandled = 0
  /\ staleFired = FALSE

\* The same callback has added the link; isValidEmail is not called on its
\* own.
Init ==
  /\ PageInit
  /\ currentPath = DefaultPath
  /\ isAuthor = FALSE
  /\ linkHref = Link(RegistrationPath(DefaultPath, FALSE))
  /\ emailArg = Null
  /\ emailResult = NoCall

\* ------------------------------------------------------ feedback presenter
\* The part of the page the two presenters work on.
\*   msgs     : .form-message elements in the form
\*   timers   : pending setTimeout callbacks
\*   nextId   : next fresh identity
\*   disabled : button[type=submit].disabled
UI(m, t, n, d) == [msgs |-> m, timers |-> t, nextId |-> n, disabled |-> d]

MessageEl(id, kind, text) ==
  [ id |-> id, kind |-> kind, text |-> text,
    place |-> IF SubmitButtonPresent THEN "beforeSubmit" ELSE "appended" ]

\* Mutant: the success presenter forgets submitButton.disabled = true.
showSuccessMessage_NoDisable(ui, message) ==
  LET existingMessages == ui.msgs
      kept == ui.msgs \ existingMessages
      messageEl == MessageEl(ui.nextId, "success", message)
  IN  UI(kept \cup {messageEl}, ui.timers, ui.nextId + 1, ui.disabled)

\* showSuccessMessage(form, message)
showSuccessMessage(ui, message) ==
  LET existingMessages == ui.msgs
      kept == ui.msgs \ existingMessages
      messageEl == MessageEl(ui.nextId, "success", message)
  IN  UI(kept \cup {messageEl},
         ui.timers,
         ui.nextId + 1,
         IF SubmitButtonPresent THEN TRUE ELSE ui.disabled)

\* Mutant: the error presenter does not remove the existing messages.
showErrorMessage_KeepsOld(ui, message) ==
  LET messageEl == MessageEl(ui.nextId, "error", message)
  IN  UI(ui.msgs \cup {messageEl},
         ui.timers \cup
           {[kind |-> "dismiss", el |-> ui.nextId, delay |-> ERROR_DISMISS_MS]},
         ui.nextId + 1,
         ui.disabled)

\* Mutant: the error presenter registers no auto-dismiss timer.
showErrorMessage_NoTimer(ui, message) ==
  LET existingMessages == ui.msgs
      kept == ui.msgs \ existingMessages
      messageEl == MessageEl(ui.nextId, "error", message)
  IN  UI(kept \cup {messageEl}, ui.timers, ui.nextId + 1, ui.disabled)

\* showErrorMessage(form, message)
showErrorMessage(ui, message) ==
  LET existingMessages == ui.msgs
      kept == ui.msgs \ existingMessages
      messageEl == MessageEl(ui.nextId, "error", message)
  IN  UI(kept \cup {messageEl},
         ui.timers \cup
           {[kind |-> "dismiss", el |-> ui.nextId, delay |-> ERROR_DISMISS_MS]},
         ui.nextId + 1,
         ui.disabled)

\* ------------------------------------------------------- decision of submit
\* Mutant: the password check comes before the email check.
Decide_PasswordFirst(enteredEmail, enteredPassword, stored) ==
  LET registeredEmail == CleanRegistered(stored)
  IN  IF PasswordEmpty(enteredPassword) THEN "RejectedEmptyPassword"
      ELSE IF ~isValidEmail(Str(enteredEmail)) THEN "RejectedInvalidEmail"
      ELSE IF ~Truthy(registeredEmail) \/ ~isValidEmail(registeredEmail)
        THEN "RejectedNoAccount"
      ELSE IF ToLowerCase(enteredEmail) # ToLowerCase(registeredEmail.value)
        THEN "RejectedMismatch"
      ELSE "Accepted"

\* Mutant: the check for a missing or malformed record is left out.
Decide_SkipsNoAccount(enteredEmail, enteredPassword, stored) ==
  LET registeredEmail == CleanRegistered(stored)
  IN  IF ~isValidEmail(Str(enteredEmail)) THEN "RejectedInvalidEmail"
      ELSE IF PasswordEmpty(enteredPassword) THEN "RejectedEmptyPassword"
      ELSE IF ToLowerCase(enteredEmail) # ToLowerCase(registeredEmail.value)
        THEN "RejectedMismatch"
      ELSE "Accepted"

\* The four checks of the submit listener, in the order of the code; each
\* failing check returns from the listener.
Decide(enteredEmail, enteredPassword, stored) ==
  LET registeredEmail == CleanRegistered(stored)
  IN  IF ~isValidEmail(Str(enteredEmail)) THEN "RejectedInvalidEmail"
      ELSE IF PasswordEmpty(enteredPassword) THEN "RejectedEmptyPassword"
      ELSE IF ~Truthy(registeredEmail) \/ ~isValidEmail(registeredEmail)
        THEN "RejectedNoAccount"
      ELSE IF ToLowerCase(enteredEmail) # ToLowerCase(registeredEmail.value)
        THEN "RejectedMismatch"
      ELSE "Accepted"

RejectMessage(outcome) ==
  CASE outcome = "FieldsNotFound" -> MSG_FIELDS
    [] outcome = "RejectedInvalidEmail" -> MSG_INVALID_EMAIL
    [] outcome = "RejectedEmptyPassword" -> MSG_EMPTY_PASSWORD
    [] outcome = "RejectedNoAccount" -> MSG_NO_ACCOUNT
    [] outcome = "RejectedMismatch" -> MSG_MISMATCH

\* Mutant: the no-account branch focuses the email field like its
\* neighbours.
RejectFocus_NoAccountFocusesEmail(outcome, current) ==
  CASE outcome = "RejectedInvalidEmail" -> "email"
    [] outcome = "RejectedEmptyPassword" -> "password"
    [] outcome = "RejectedNoAccount" -> "email"
    [] outcome = "RejectedMismatch" -> "email"
    [] OTHER -> current

RejectFocus(outcome, current) ==
  CASE outcome = "RejectedInvalidEmail" -> "email"
    [] outcome = "RejectedEmptyPassword" -> "password"
    [] outcome = "RejectedMismatch" -> "email"
    [] OTHER -> current

\* What one run of the listener leaves behind.
Page(st, ui, fc, ev, log) ==
  [storage |-> st, ui |-> ui, focus |-> fc, events |-> ev, log |-> log]

\* Mutant: the flag is written before the checks, so a rejection keeps it.
RejectEffects_WritesFlag(pg, outcome) ==
  Page([pg.storage EXCEPT ![LOGGED_IN_KEY] = Str(TRUE_STR)],
       showErrorMessage(pg.ui, RejectMessage(outcome)),
       RejectFocus(outcome, pg.focus),
       pg.events,
       Append(pg.log, [key |-> LOGGED_IN_KEY, value |-> TRUE_STR]))

\* Mutant: the "login" event is dispatched before the checks.
RejectEffects_DispatchesEvent(pg, outcome) ==
  Page(pg.storage,
       showErrorMessage(pg.ui, RejectMessage(outcome)),
       RejectFocus(outcome, pg.focus),
       Append(pg.events,
              [type |-> "login", bubbles |-> TRUE,
               detail |-> [email |-> <<>>]]),
       pg.log)

\* Mutant: a rejection signs the user out, localStorage.removeItem of the flag.
RejectEffects_ClearsFlag(pg, outcome) ==
  Page([pg.storage EXCEPT ![LOGGED_IN_KEY] = Null],
       showErrorMessage(pg.ui, RejectMessage(outcome)),
       RejectFocus(outcome, pg.focus),
       pg.events,
       pg.log)

\* A failing check: show the error that belongs to it, move the focus, return.
RejectEffects(pg, outcome) ==
  Page(pg.storage,
       showErrorMessage(pg.ui, RejectMessage(outcome)),
       RejectFocus(outcome, pg.focus),
       pg.events,
       pg.log)

\* Mutant: the event carries the lower-cased email.
AcceptEffects_LowerCased(pg, enteredEmail, enteredPassword, writeFails) ==
  IF writeFails
    THEN Page(pg.storage, showErrorMessage(pg.ui, MSG_FAILED), pg.focus,
              pg.events, pg.log)
    ELSE
      LET shown == showSuccessMessage(pg.ui, MSG_SUCCESS)
      IN  Page([pg.storage EXCEPT ![LOGGED_IN_KEY] = Str(TRUE_STR)],
               UI(shown.msgs,
                  shown.timers \cup
                    {[kind |-> "redirect", el |-> shown.nextId,
                      delay |-> REDIRECT_MS]},
                  shown.nextId + 1,
                  shown.disabled),
               pg.focus,
               Append(pg.events,
                      [type |-> "login", bubbles |-> TRUE,
                       detail |-> [email |-> ToLowerCase(enteredEmail)]]),
               Append(pg.log, [key |-> LOGGED_IN_KEY, value |-> TRUE_STR]))

\* Mutant: the redirect is never scheduled.
AcceptEffects_NoRedirect(pg, enteredEmail, enteredPassword, writeFails) ==
  IF writeFails
    THEN Page(pg.storage, showErrorMessage(pg.ui, MSG_FAILED), pg.focus,
              pg.events, pg.log)
    ELSE
      Page([pg.storage EXCEPT ![LOGGED_IN_KEY] = Str(TRUE_STR)],
           showSuccessMessage(pg.ui, MSG_SUCCESS),
           pg.focus,
           Append(pg.events,
                  [type |-> "login", bubbles |-> TRUE,
                   detail |-> [email |-> enteredEmail]]),
           Append(pg.log, [key |-> LOGGED_IN_KEY, value |-> TRUE_STR]))

\* Mutant: the event detail also carries the password.
AcceptEffects_PasswordInPayload(pg, enteredEmail, enteredPassword, writeFails) ==
  IF writeFails
    THEN Page(pg.storage, showErrorMessage(pg.ui, MSG_FAILED), pg.focus,
              pg.events, pg.log)
    ELSE
      LET shown == showSuccessMessage(pg.ui, MSG_SUCCESS)
      IN  Page([pg.storage EXCEPT ![LOGGED_IN_KEY] = Str(TRUE_STR)],
               UI(shown.msgs,
                  shown.timers \cup
                    {[kind |-> "redirect", el |-> shown.nextId,
                      delay |-> REDIRECT_MS]},
                  shown.nextId + 1,
                  shown.disabled),
               pg.focus,
               Append(pg.events,
                      [type |-> "login", bubbles |-> TRUE,
                       detail |-> [email |-> enteredEmail,
                                   password |-> enteredPassword]]),
               Append(pg.log, [key |-> LOGGED_IN_KEY, value |-> TRUE_STR]))

\* Mutant: the event is dispatched before the flag is written.
TryBlock_EventFirst(pg, enteredEmail, enteredPassword, failAt) ==
  LET afterEvent ==
        Page(pg.storage, pg.ui, pg.focus,
             Append(pg.events,
                    [type |-> "login", bubbles |-> TRUE,
                     detail |-> [email |-> enteredEmail],
                     seen |-> [flag |-> pg.storage[LOGGED_IN_KEY],
                               msgs |-> pg.ui.msgs,
                               timers |-> pg.ui.timers]]),
             pg.log)
      afterSetItem ==
        Page([afterEvent.storage EXCEPT ![LOGGED_IN_KEY] = Str(TRUE_STR)],
             afterEvent.ui, afterEvent.focus, afterEvent.events,
             Append(afterEvent.log,
                    [key |-> LOGGED_IN_KEY, value |-> TRUE_STR]))
      afterMessage ==
        Page(afterSetItem.storage,
             showSuccessMessage(afterSetItem.ui, MSG_SUCCESS),
             afterSetItem.focus, afterSetItem.events, afterSetItem.log)
      afterTimer ==
        Page(afterMessage.storage,
             UI(afterMessage.ui.msgs,
                afterMessage.ui.timers \cup
                  {[kind |-> "redirect", el |-> afterMessage.ui.nextId,
                    delay |-> REDIRECT_MS]},
                afterMessage.ui.nextId + 1,
                afterMessage.ui.disabled),
             afterMessage.focus, afterMessage.events, afterMessage.log)
      reached ==
        CASE failAt = "event" -> pg
          [] failAt = "setItem" -> afterEvent
          [] failAt = "message" -> afterSetItem
          [] failAt = "timer" -> afterMessage
          [] OTHER -> afterTimer
  IN  IF failAt = "none"
        THEN reached
        ELSE Page(reached.storage, showErrorMessage(reached.ui, MSG_FAILED),
                  reached.focus, reached.events, reached.log)

\* The try block of the listener, statement by statement:
\*   setItem : localStorage.setItem("luma_user_logged_in", "true")
\*   event   : new CustomEvent("login", ...) and document.dispatchEvent
\*   message : showSuccessMessage
\*   timer   : setTimeout of the redirect
\* failAt names the statement that throws ("none": the block completes).  The
\* statements before it have run and are not undone; the catch clause shows
\* the generic failure message.  Listeners of the event run inside
\* dispatchEvent: seen is the page as they find it.  The event's timestamp
\* (new Date().toISOString()) is not modelled.
TryBlock(pg, enteredEmail, enteredPassword, failAt) ==
  LET afterSetItem ==
        Page([pg.storage EXCEPT ![LOGGED_IN_KEY] = Str(TRUE_STR)],
             pg.ui, pg.focus, pg.events,
             Append(pg.log, [key |-> LOGGED_IN_KEY, value |-> TRUE_STR]))
      afterEvent ==
        Page(afterSetItem.storage, afterSetItem.ui, afterSetItem.focus,
             Append(afterSetItem.events,
                    [type |-> "login", bubbles |-> TRUE,
                     detail |-> [email |-> enteredEmail],
                     seen |-> [flag |-> afterSetItem.storage[LOGGED_IN_KEY],
                               msgs |-> afterSetItem.ui.msgs,
                               timers |-> afterSetItem.ui.timers]]),
             afterSetItem.log)
      afterMessage ==
        Page(afterEvent.storage,
             showSuccessMessage(afterEvent.ui, MSG_SUCCESS),
             afterEvent.focus, afterEvent.events, afterEvent.log)
      afterTimer ==
        Page(afterMessage.storage,
             UI(afterMessage.ui.msgs,
                afterMessage.ui.timers \cup
                  {[kind |-> "redirect", el |-> afterMessage.ui.nextId,
                    delay |-> REDIRECT_MS]},
                afterMessage.ui.nextId + 1,
                afterMessage.ui.disabled),
             afterMessage.focus, afterMessage.events, afterMessage.log)
      reached ==
        CASE failAt = "setItem" -> pg
          [] failAt = "event" -> afterSetItem
          [] failAt = "message" -> afterEvent
          [] failAt = "timer" -> afterMessage
          [] OTHER -> afterTimer
  IN  IF failAt = "none"
        THEN reached
        ELSE Page(reached.storage, showErrorMessage(reached.ui, MSG_FAILED),
                  reached.focus, reached.events, reached.log)

\* Mutant: the catch clause shows the failure with the success presenter,
\* which disables the submit button.
AcceptEffects_FailureLocksForm(pg, enteredEmail, enteredPassword, writeFails) ==
  IF writeFails
    THEN Page(pg.storage,
              UI(showErrorMessage(pg.ui, MSG_FAILED).msgs,
                 showErrorMessage(pg.ui, MSG_FAILED).timers,
                 showErrorMessage(pg.ui, MSG_FAILED).nextId,
                 TRUE),
              pg.focus, pg.events, pg.log)
    ELSE TryBlock(pg, enteredEmail, enteredPassword, "none")

\* The try block as a browser runs it: setItem, its first statement, throws
\* when the storage quota is exhausted; no other statement of the block
\* throws.
AcceptEffects(pg, enteredEmail, enteredPassword, writeFails) ==
  TryBlock(pg, enteredEmail, enteredPassword,
           IF writeFails THEN "setItem" ELSE "none")

\* Outcome of the listener for the given field values.
\* localStorage is first touched at the getItem call, after the two input
\* checks and outside the try block: when storage access is denied it throws
\* there and the listener's promise is rejected with nobody to handle it.
OutcomeOf(pg, emailValue, passwordValue) ==
  IF ~fieldsPresent
    THEN "FieldsNotFound"
    ELSE
      LET decided == Decide(Trim(emailValue), passwordValue,
                            pg.storage[REGISTERED_EMAIL_KEY])
      IN  IF storageBlocked
               /\ decided \notin {"RejectedInvalidEmail", "RejectedEmptyPassword"}
            THEN "StorageFault"
            ELSE decided

\* The submit listener as a function of the page it runs on and its inputs.
SubmitListener(pg, emailValue, passwordValue, writeFails) ==
  LET outcome == OutcomeOf(pg, emailValue, passwordValue)
  IN  IF outcome = "Accepted"
        THEN AcceptEffects(pg, Trim(emailValue), passwordValue, writeFails)
        ELSE IF outcome = "StorageFault" THEN pg
        ELSE RejectEffects(pg, outcome)

\* The listener under the hypothesis that any one statement of its try block
\* may throw.
SubmitListenerAt(pg, emailValue, passwordValue, failAt) ==
  LET outcome == OutcomeOf(pg, emailValue, passwordValue)
  IN  IF outcome = "Accepted"
        THEN TryBlock(pg, Trim(emailValue), passwordValue, failAt)
        ELSE IF outcome = "StorageFault" THEN pg
        ELSE RejectEffects(pg, outcome)

CurrentPage ==
  Page(localStorage, UI(formMsgs, timers, nextId, submitDisabled), focus,
       events, setItemLog)

\* ----------------------------------------------------------------- actions
\* The browser delivers no submit event while the submit button is disabled,
\* and none once the page has been left.
CanSubmit ==
  /\ location = "page"
  /\ ~submitDisabled
  /\ submits < MaxSubmits

\* A submit event reaches the listener, which leaves the page as pg.
Handled(emailValue, passwordValue, failAt, outcome, pg) ==
  /\ LET shown == {m \in pg.ui.msgs : m.id = nextId}
         failed == IF outcome = "Accepted" THEN failAt ELSE "none"
     IN  /\ localStorage' = pg.storage
         /\ formMsgs' = pg.ui.msgs
         /\ timers' = pg.ui.timers
         /\ nextId' = pg.ui.nextId
         /\ submitDisabled' = pg.ui.disabled
         /\ focus' = pg.focus
         /\ events' = pg.events
         /\ setItemLog' = pg.log
         /\ submits' = submits + 1
         /\ accepted' = IF outcome = "Accepted" THEN accepted + 1 ELSE accepted
         /\ acceptedStored' =
              IF outcome = "Accepted" /\ failed # "setItem"
                THEN acceptedStored + 1
                ELSE acceptedStored
         /\ unhandled' =
              IF outcome = "StorageFault" THEN unhandled + 1 ELSE unhandled
         /\ last' =
              [ handled |-> TRUE,
                emailValue |-> IF fieldsPresent THEN emailValue ELSE <<>>,
                passwordValue |-> IF fieldsPresent THEN passwordValue ELSE <<>>,
                stored |-> IF outcome = "StorageFault"
                             THEN Null
                             ELSE localStorage[REGISTERED_EMAIL_KEY],
                writeFailed |-> failed = "setItem",
                failedAt |-> failed,
                outcome |-> outcome,
                message |-> IF shown = {} THEN ""
                            ELSE (CHOOSE m \in shown : TRUE).text,
                msgId |-> nextId ]
  /\ UNCHANGED <<fieldsPresent, location, navigations, storageBlocked,
                 staleFired, linkVars, callVars>>

\* One submission as a browser runs it.
Submit(emailValue, passwordValue, writeFails) ==
  /\ CanSubmit
  /\ \E outcome \in {OutcomeOf(CurrentPage, emailValue, passwordValue)} :
     \E pg \in {SubmitListener(CurrentPage, emailValue, passwordValue,
                              writeFails)} :
      Handled(emailValue, passwordValue,
              IF writeFails THEN "setItem" ELSE "none", outcome, pg)

\* One submission under the hypothesis that any statement of the try block
\* may throw.
SubmitAnyStep(emailValue, passwordValue, failAt) ==
  /\ CanSubmit
  /\ \E outcome \in {OutcomeOf(CurrentPage, emailValue, passwordValue)} :
     \E pg \in {SubmitListenerAt(CurrentPage, emailValue, passwordValue,
                                failAt)} :
      Handled(emailValue, passwordValue, failAt, outcome, pg)

\* Mutant: the callback removes every .form-message of the form.
DismissTimerFires_RemovesAll(id) ==
  /\ location = "page"
  /\ \E t \in timers :
       /\ t.kind = "dismiss"
       /\ t.el = id
       /\ timers' = timers \ {t}
  /\ formMsgs' = {}
  /\ staleFired' = (staleFired \/ ~(\E m \in formMsgs : m.id = id))
  /\ UNCHANGED << localStorage, fieldsPresent, nextId, submitDisabled, focus,
                  events, setItemLog, location, navigations, submits,
                  accepted, acceptedStored, last, storageBlocked, unhandled,
                  linkVars, callVars >>

\* The callback of showErrorMessage's setTimeout runs: messageEl.remove().
\* Removing an element that is no longer in the form changes nothing.
DismissTimerFires(id) ==
  /\ location = "page"
  /\ \E t \in timers :
       /\ t.kind = "dismiss"
       /\ t.el = id
       /\ timers' = timers \ {t}
  /\ formMsgs' = {m \in formMsgs : m.id # id}
  /\ staleFired' = (staleFired \/ ~(\E m \in formMsgs : m.id = id))
  /\ UNCHANGED << localStorage, fieldsPresent, nextId, submitDisabled, focus,
                  events, setItemLog, location, navigations, submits,
                  accepted, acceptedStored, last, storageBlocked, unhandled,
                  linkVars, callVars >>

\* The callback of the listener's setTimeout runs: window.location.href = "/".
\* The document is left; none of its callbacks runs afterwards.
RedirectTimerFires(id) ==
  /\ location = "page"
  /\ \E t \in timers :
       /\ t.kind = "redirect"
       /\ t.el = id
       /\ timers' = timers \ {t}
  /\ location' = REDIRECT_TARGET
  /\ navigations' = navigations + 1
  /\ UNCHANGED << localStorage, fieldsPresent, formMsgs, nextId,
                  submitDisabled, focus, events, setItemLog, submits,
                  accepted, acceptedStored, last, storageBlocked, unhandled,
                  staleFired, linkVars, callVars >>

\* Identities handed out in one page life: at most two per submission.
Ids == 1..(2 * MaxSubmits)

SubmitStep ==
  \E e \in EmailInputs : \E p \in PasswordInputs : \E w \in BOOLEAN :
    Submit(e, p, w)

Next ==
  \/ SubmitStep
  \/ \E id \in Ids : DismissTimerFires(id)
  \/ \E id \in Ids : RedirectTimerFires(id)

Spec == Init /\ [][Next]_vars

\* The event loop runs every pending timer callback of a live document.
FairSpec ==
  /\ Spec
  /\ \A id \in Ids : WF_vars(DismissTimerFires(id))
  /\ \A id \in Ids : WF_vars(RedirectTimerFires(id))

\* The page under the hypothesis that any statement of the try block may
\* throw.
FailSteps == {"none", "setItem", "event", "message", "timer"}

\* Field values for that hypothesis: a lower-case, an upper-case and a
\* malformed email; an empty and a non-empty password.
AnyStepEmails ==
  { <<"a", "@", "b", ".", "c">>, <<"A", "@", "b", ".", "c">>,
    <<"a", "b", ".", "c">> }
AnyStepPasswords == { <<>>, <<"p">> }

SubmitAnyStepStep ==
  \E e \in AnyStepEmails : \E p \in AnyStepPasswords : \E f \in FailSteps :
    SubmitAnyStep(e, p, f)

NextAnyStep ==
  \/ SubmitAnyStepStep
  \/ \E id \in Ids : DismissTimerFires(id)
  \/ \E id \in Ids : RedirectTimerFires(id)

AnyStepSpec == Init /\ [][NextAnyStep]_vars

\* ---------------------------------------------- the link and isValidEmail
\* A page on which nothing is stored and nothing has been submitted.
QuietPage ==
  /\ PageInit
  /\ fieldsPresent
  /\ ~storageBlocked
  /\ \A k \in StorageKeys : ~localStorage[k].present

\* addCreateAccountLink(block, isAuthor) on a block that has its form.
AddCreateAccountLink ==
  /\ ~linkHref.added
  /\ linkHref' = Link(RegistrationPath(currentPath, isAuthor))
  /\ UNCHANGED <<pageVars, currentPath, isAuthor, callVars>>

PathInit ==
  /\ QuietPage
  /\ currentPath \in PathInputs
  /\ isAuthor \in BOOLEAN
  /\ linkHref = NoLink
  /\ emailArg = Null
  /\ emailResult = NoCall

PathNext == AddCreateAccountLink

\* The link for every path and both environments.
PathSpec == PathInit /\ [][PathNext]_vars

\* One call isValidEmail(emailArg).
CallIsValidEmail ==
  /\ ~emailResult.called
  /\ emailResult' = Returned(isValidEmail(emailArg))
  /\ UNCHANGED <<pageVars, linkVars, emailArg>>

EmailInit ==
  /\ QuietPage
  /\ currentPath = DefaultPath
  /\ isAuthor = FALSE
  /\ linkHref = Link(RegistrationPath(DefaultPath, FALSE))
  /\ emailArg \in EmailArgs
  /\ emailResult = NoCall

EmailNext == CallIsValidEmail

\* isValidEmail for every argument.
EmailSpec == EmailInit /\ [][EmailNext]_vars

\* ------------------------------------------------------ vocabulary of claims
Flag == localStorage[LOGGED_IN_KEY]
Registered == localStorage[REGISTERED_EMAIL_KEY]

RejectedOutcomes ==
  { "RejectedInvalidEmail", "RejectedEmptyPassword", "RejectedNoAccount",
    "RejectedMismatch" }

\* The most recent submission found both input fields and, if it got as far
\* as reading the registered email, could read it.
LastRead ==
  /\ last.handled
  /\ last.outcome \notin {"FieldsNotFound", "StorageFault"}

LastEntered == Trim(last.emailValue)
LastClean == CleanRegistered(last.stored)

WellFormedEntered == isValidEmail(Str(LastEntered))
BlankPassword == \A i \in 1..Len(last.passwordValue) :
                   last.passwordValue[i] \in WhiteSpace
RecordUsable == LastClean.present /\ LastClean.value # <<>> /\ isValidEmail(LastClean)
EqualIgnoringCase(a, b) ==
  /\ Len(a) = Len(b)
  /\ \A i \in 1..Len(a) : LowerChar(a[i]) = LowerChar(b[i])

FlagWrites == {i \in 1..Len(setItemLog) : setItemLog[i].key = LOGGED_IN_KEY}
RedirectTimers == {t \in timers : t.kind = "redirect"}
DismissTimers == {t \in timers : t.kind = "dismiss"}
SuccessShown == \E m \in formMsgs : m.kind = "success"

\* ---------------------------------------------------------------------- C1
\* C1 as stated: the widget has written the session flag if and only if some
\* submission passed all four checks, submissions whose flag write failed
\* included.
C1_FlagWrittenIffAccepted == (FlagWrites # {}) <=> (accepted > 0)

\* C1 (amended): the widget has written the session flag if and only if some
\* submission passed all four checks and its flag write completed; the most
\* recent submission passed them exactly when its trimmed email is
\* well-formed, its password is not blank, the sanitized record is present
\* and well-formed and the two emails are equal after lower-casing.
C1_FlagWrittenIffAcceptedStored ==
  /\ (FlagWrites # {}) <=> (acceptedStored > 0)
  /\ FlagWrites # {} => Flag = Str(TRUE_STR)
  /\ LastRead =>
       ( last.outcome = "Accepted" <=>
           /\ WellFormedEntered
           /\ ~BlankPassword
           /\ RecordUsable
           /\ ToLowerCase(LastEntered) = ToLowerCase(LastClean.value) )

\* A failed flag write was followed by an accepted submission that wrote it.
C1_Witness ==
  /\ accepted > acceptedStored
  /\ acceptedStored > 0
  /\ FlagWrites # {}

\* ---------------------------------------------------------------------- C2
\* C2: the outcome of a submission is the one of the first failing check in
\* the order email format, blank password, record absent, mismatch, and
\* Accepted when none fails.
C2_FirstFailingCheck ==
  LastRead =>
    /\ last.outcome \in RejectedOutcomes \cup {"Accepted"}
    /\ ~WellFormedEntered => last.outcome = "RejectedInvalidEmail"
    /\ WellFormedEntered /\ BlankPassword =>
         last.outcome = "RejectedEmptyPassword"
    /\ WellFormedEntered /\ ~BlankPassword /\ ~RecordUsable =>
         last.outcome = "RejectedNoAccount"
    /\ WellFormedEntered /\ ~BlankPassword /\ RecordUsable
         /\ ToLowerCase(LastEntered) # ToLowerCase(LastClean.value) =>
         last.outcome = "RejectedMismatch"
    /\ WellFormedEntered /\ ~BlankPassword /\ RecordUsable
         /\ ToLowerCase(LastEntered) = ToLowerCase(LastClean.value) =>
         last.outcome = "Accepted"

\* An invalid email with an empty password and no stored record.
C2_Witness ==
  /\ LastRead
  /\ ~WellFormedEntered
  /\ last.passwordValue = <<>>
  /\ ~last.stored.present
  /\ last.outcome = "RejectedInvalidEmail"

\* ---------------------------------------------------------------------- C3
\* C3 as stated: with no record under the registered-email key, every
\* submission, whatever the email and the password, yields RejectedNoAccount,
\* and the session flag is never written.
C3_AnySubmissionNoAccount ==
  /\ LastRead /\ ~last.stored.present => last.outcome = "RejectedNoAccount"
  /\ ~Registered.present => FlagWrites = {}

\* C3 (amended): with no record under the registered-email key, every
\* submission with a well-formed email and a non-blank password yields
\* RejectedNoAccount, every other one yields the rejection of its input
\* check, and the session flag is never written.
C3_NoRecordNoAccount ==
  ~Registered.present =>
    /\ FlagWrites = {}
    /\ accepted = 0
    /\ LastRead /\ WellFormedEntered /\ ~BlankPassword =>
         last.outcome = "RejectedNoAccount"
    /\ LastRead /\ ~(WellFormedEntered /\ ~BlankPassword) =>
         last.outcome \in {"RejectedInvalidEmail", "RejectedEmptyPassword"}

C3_Witness ==
  /\ ~Registered.present
  /\ LastRead
  /\ WellFormedEntered
  /\ last.outcome = "RejectedNoAccount"
  /\ submits > 1

\* ---------------------------------------------------------------------- C4
\* The stored record sanitizes to a well-formed email and the trimmed entered
\* email equals it ignoring letter case.
LastMatchesRecord ==
  /\ LastRead
  /\ RecordUsable
  /\ EqualIgnoringCase(LastEntered, LastClean.value)

LastApplied ==
  /\ last.outcome = "Accepted"
  /\ Flag = Str(TRUE_STR)
  /\ setItemLog = << [key |-> LOGGED_IN_KEY, value |-> TRUE_STR] >>
  /\ Len(events) = 1
  /\ events[1].type = "login"
  /\ events[1].detail.email = LastEntered

\* C4 as stated: a submission whose trimmed email equals the sanitized,
\* well-formed record ignoring case and whose password is non-empty is
\* Accepted, writes the flag "true" and emits exactly one "login" event
\* carrying the entered email as typed.
C4_MatchNonEmptyPasswordAccepted ==
  LastMatchesRecord /\ last.passwordValue # <<>> => LastApplied

\* C4 (amended): the same for a password that is neither empty nor
\* whitespace-only, provided the flag write completes.
C4_MatchAccepted ==
  LastMatchesRecord /\ ~BlankPassword /\ ~last.writeFailed => LastApplied

\* Entered in upper case against a quoted, padded lower-case record.
C4_Witness ==
  /\ LastMatchesRecord
  /\ LastApplied
  /\ LastEntered # LastClean.value
  /\ LastClean.value # last.stored.value
  /\ events[1].detail.email # ToLowerCase(LastEntered)

\* ---------------------------------------------------------------------- C5
\* C5: a submission with a Rejected outcome leaves local storage as it was,
\* dispatches no "login" event and schedules no redirect; a mismatch is one
\* such outcome.
C5_RejectedHasNoEffect ==
  [][ submits' = submits + 1 /\ last'.outcome \in RejectedOutcomes =>
        /\ localStorage' = localStorage
        /\ setItemLog' = setItemLog
        /\ events' = events
        /\ {t \in timers' : t.kind = "redirect"} = RedirectTimers
        /\ navigations' = navigations
        /\ location' = location ]_vars

\* A mismatch against a usable record, with nothing applied.
C5_Witness ==
  /\ last.outcome = "RejectedMismatch"
  /\ RecordUsable
  /\ WellFormedEntered
  /\ events = <<>>
  /\ FlagWrites = {}
  /\ RedirectTimers = {}

\* ---------------------------------------------------------------------- C6
\* C6: the form holds at most one message element in every reachable state.
C6_AtMostOneMessage == Cardinality(formMsgs) <= 1

\* A second message is displayed while the timer of the first is pending.
C6_Witness ==
  /\ Cardinality(formMsgs) = 1
  /\ submits >= 2
  /\ \E t \in DismissTimers : \A m \in formMsgs : m.id # t.el

\* ---------------------------------------------------------------------- C7
ErrorInForm(id) == \E m \in formMsgs : m.id = id /\ m.kind = "error"
InForm(id) == \E m \in formMsgs : m.id = id

\* C7: every error message shown is eventually absent from the form; while it
\* is displayed its own 5000 ms timer is pending, that timer removes it, and
\* showing an error message leaves the submit control enabled as it was.
C7_ErrorEventuallyAbsent ==
  /\ \A id \in Ids : ErrorInForm(id) ~> ~InForm(id)
  /\ [](\A m \in formMsgs :
          m.kind = "error" =>
            [kind |-> "dismiss", el |-> m.id, delay |-> ERROR_DISMISS_MS]
              \in timers)
  /\ [][ \A id \in Ids :
           ErrorInForm(id) /\ (\E t \in timers \ timers' : t.el = id) =>
             ~InForm(id)' ]_vars
  /\ [][ (\E m \in formMsgs' \ formMsgs : m.kind = "error") =>
           submitDisabled' = submitDisabled /\ ~submitDisabled' ]_vars

\* An error message was removed by its own timer, not by a replacement.
C7_Witness ==
  /\ last.handled
  /\ last.outcome \in RejectedOutcomes
  /\ formMsgs = {}
  /\ \A t \in timers : t.el # last.msgId
  /\ ~submitDisabled

\* ---------------------------------------------------------------------- C8
\* C8 (amended): once the success message is shown the submit control is
\* disabled, no further submission is handled, and the message stays in the
\* form whatever timer runs; per page at most one submission has its effects
\* applied, at most one "login" event is dispatched and at most one redirect
\* is scheduled (submissions whose flag write failed may pass the four checks
\* before that).
C8_SuccessIsFinal ==
  /\ [](SuccessShown => submitDisabled)
  /\ [][ SuccessShown =>
           /\ submits' = submits
           /\ formMsgs' = formMsgs
           /\ events' = events ]_vars
  /\ [](acceptedStored <= 1 /\ Len(events) <= 1)
  /\ [](Cardinality(RedirectTimers) + navigations <= 1)

\* C8 as stated: the same, with at most one Accepted outcome per page.
C8_AtMostOneAccepted ==
  /\ [](SuccessShown => submitDisabled)
  /\ [][ SuccessShown =>
           /\ submits' = submits
           /\ formMsgs' = formMsgs
           /\ events' = events ]_vars
  /\ [](accepted <= 1 /\ Len(events) <= 1)
  /\ [](Cardinality(RedirectTimers) + navigations <= 1)

\* The success message is displayed while the timer of an earlier error
\* message is still pending.
C8_Witness ==
  /\ SuccessShown
  /\ submitDisabled
  /\ DismissTimers # {}
  /\ accepted > 1

NonBlankPasswords == {p \in PasswordInputs : ~PasswordEmpty(p)}

\* C10: from every reachable page that takes submissions, two submissions
\* that differ only in their non-blank passwords have the same outcome and
\* leave the same storage, messages, timers, events and focus; no password is
\* ever a stored value, a logged write or part of an event.
C10_PasswordIrrelevant ==
  /\ location = "page" /\ ~submitDisabled =>
       \A e \in EmailInputs : \A w \in BOOLEAN :
         \A p1 \in NonBlankPasswords : \A p2 \in NonBlankPasswords \ {p1} :
           /\ OutcomeOf(CurrentPage, e, p1) = OutcomeOf(CurrentPage, e, p2)
           /\ SubmitListener(CurrentPage, e, p1, w) =
                SubmitListener(CurrentPage, e, p2, w)
  /\ \A p \in PasswordInputs \ {<<>>} :
       /\ \A k \in StorageKeys : localStorage[k] # Str(p)
       /\ \A i \in 1..Len(setItemLog) : setItemLog[i].value # p
       /\ \A i \in 1..Len(events) :
            /\ DOMAIN events[i].detail = {"email"}
            /\ events[i].detail.email # p

\* An accepted, applied submission with a non-blank password.
C10_Witness ==
  /\ last.outcome = "Accepted"
  /\ ~last.writeFailed
  /\ last.passwordValue \in NonBlankPasswords
  /\ Len(events) = 1
  /\ FlagWrites # {}

\* --------------------------------------------------------------------- C11
RECURSIVE WithoutQuotesAndStars(_)
WithoutQuotesAndStars(x) ==
  IF x = <<>> THEN <<>>
  ELSE IF Head(x) \in {"*", "\"", "'"}
    THEN WithoutQuotesAndStars(Tail(x))
    ELSE <<Head(x)>> \o WithoutQuotesAndStars(Tail(x))

SanitizedLast == Trim(WithoutQuotesAndStars(last.stored.value))

LastTreatedAbsent ==
  \/ ~last.stored.present
  \/ SanitizedLast = <<>>
  \/ ~isValidEmail(Str(SanitizedLast))

\* C11: a submission that passes the two input checks yields RejectedNoAccount
\* exactly when the key is missing or its value, with every asterisk and
\* quote removed and then trimmed, is empty or not a valid email; otherwise
\* it is Accepted or RejectedMismatch according to the comparison of the
\* entered email with the sanitized value, lower-cased.
C11_AbsentOrSanitized ==
  LastRead /\ WellFormedEntered /\ ~BlankPassword =>
    /\ LastTreatedAbsent <=> last.outcome = "RejectedNoAccount"
    /\ ~LastTreatedAbsent =>
         /\ last.outcome \in {"Accepted", "RejectedMismatch"}
         /\ last.outcome = "Accepted" <=>
              ToLowerCase(LastEntered) = ToLowerCase(SanitizedLast)

\* Accepted against a record whose raw value differs from the entered email
\* even ignoring case.
C11_Witness ==
  /\ LastRead
  /\ last.outcome = "Accepted"
  /\ ~LastTreatedAbsent
  /\ SanitizedLast # last.stored.value
  /\ ToLowerCase(LastEntered) # ToLowerCase(Trim(last.stored.value))

\* --------------------------------------------------------------------- C12
\* C12: when the flag write of a submission that passed all checks fails, the
\* listener shows "Sign-in failed. Please try again." as an error message,
\* ends without an uncaught exception, writes nothing, and leaves the page
\* ready for the next submission: submit control enabled, page not left.
C12_WriteFailureCaught ==
  last.writeFailed =>
    /\ last.outcome = "Accepted"
    /\ last.message = "Sign-in failed. Please try again."
    /\ unhandled = 0
    /\ ~submitDisabled
    /\ location = "page"
    /\ ~SuccessShown
    /\ \A m \in formMsgs :
         m.id = last.msgId /\ m.kind = "error" /\ m.text = last.message
    /\ formMsgs # {} \/ (\A t \in timers : t.el # last.msgId)

\* A second submission was handled after a failed write, and failed again.
C12_Witness ==
  /\ last.writeFailed
  /\ formMsgs # {}
  /\ accepted >= 2
  /\ acceptedStored = 0

\* --------------------------------------------------------------------- C13
\* C13: every submission ends without an uncaught exception and has shown a
\* message, the success message or an error message.
C13_NoFatalError ==
  /\ unhandled = 0
  /\ last.handled => last.message # ""

\* --------------------------------------------------------------------- C14
EndsWith(s, suffix) ==
  /\ Len(suffix) <= Len(s)
  /\ SubSeq(s, Len(s) - Len(suffix) + 1, Len(s)) = suffix

WithoutSuffix(s, suffix) == SubSeq(s, 1, Len(s) - Len(suffix))

\* The path with only a sign-in segment at its end exchanged.
TrailingSegmentExchanged(path, author) ==
  IF author
    THEN IF EndsWith(path, SIGN_IN_HTML)
           THEN WithoutSuffix(path, SIGN_IN_HTML) \o REGISTRATION_HTML
           ELSE path
    ELSE IF EndsWith(path, SIGN_IN_HTML)
           THEN WithoutSuffix(path, SIGN_IN_HTML) \o REGISTRATION
           ELSE IF EndsWith(path, SIGN_IN)
                  THEN WithoutSuffix(path, SIGN_IN) \o REGISTRATION
                  ELSE path

\* C14: the link's path is the current path with only a sign-in segment at
\* its end exchanged ("/sign-in.html" for "/registration.html" in authoring
\* mode, "/sign-in" or "/sign-in.html" for "/registration" when published);
\* earlier occurrences stay and a path without such an ending is unchanged.
C14_OnlyTrailingSegmentChanged ==
  linkHref.added =>
    linkHref.href = TrailingSegmentExchanged(currentPath, isAuthor)

\* --------------------------------------------------------------------- C15
\* No "@", or no "." anywhere after an "@".
NoDotAfterAt(s) ==
  \A i \in 1..Len(s) : s[i] = "@" => \A j \in (i + 1)..Len(s) : s[j] # "."

\* Optional surrounding whitespace around local@domain.tld: s[a..b] has no
\* whitespace, exactly one "@", at i, with a character before it, and a "."
\* at j with a character between "@" and it and a character after it.
PaddedLocalAtDomainTld(s) ==
  \E a \in 1..Len(s) : \E b \in a..Len(s) :
    /\ \A k \in 1..(a - 1) : s[k] \in WhiteSpace
    /\ \A k \in (b + 1)..Len(s) : s[k] \in WhiteSpace
    /\ \A k \in a..b : s[k] \notin WhiteSpace
    /\ \E i \in (a + 1)..b :
         /\ s[i] = "@"
         /\ \A k \in a..b : s[k] = "@" => k = i
         /\ \E j \in (i + 2)..(b - 1) : s[j] = "."

\* C15: isValidEmail returns false for a value that is not a string or is
\* empty, and for a string without "@" or without "." after the "@"; it
\* returns true for local@domain.tld with optional surrounding whitespace;
\* the call changes nothing but its result.
C15_IsValidEmail ==
  /\ [](emailResult.called =>
          /\ emailArg.type # "string" \/ emailArg.value = <<>>
               => ~emailResult.value
          /\ emailArg.type = "string" /\ NoDotAfterAt(emailArg.value)
               => ~emailResult.value
          /\ emailArg.type = "string" /\ PaddedLocalAtDomainTld(emailArg.value)
               => emailResult.value)
  /\ [][emailResult' # emailResult =>
          UNCHANGED <<pageVars, linkVars, emailArg>>]_vars

\* Called with a padded address, and it answered true.
C15_Witness ==
  /\ emailResult.called
  /\ emailResult.value
  /\ emailArg.type = "string"
  /\ Len(emailArg.value) > Len(Trim(emailArg.value))

\* --------------------------------------------------------------------- C16
\* C16: no step changes the value under the registered-email key, every
\* write goes to the session flag with the value "true", and a session flag
\* that holds "true" holds "true" after every step.
C16_StorageKeysKept ==
  [][ /\ localStorage'[REGISTERED_EMAIL_KEY] = localStorage[REGISTERED_EMAIL_KEY]
      /\ Flag = Str(TRUE_STR) => Flag' = Str(TRUE_STR)
      /\ \A i \in 1..Len(setItemLog') :
           /\ setItemLog'[i].key = "luma_user_logged_in"
           /\ setItemLog'[i].value = TRUE_STR ]_vars

\* The flag holds "true" and a record exists after a second submission that
\* was rejected.
C16_Witness ==
  /\ Flag = Str(TRUE_STR)
  /\ Registered.present
  /\ submits >= 2
  /\ last.outcome \in RejectedOutcomes

\* --------------------------------------------------------------------- C17
SubmissionHandled == submits' = submits + 1

ShowsError(text) ==
  /\ last'.message = text
  /\ \E m \in formMsgs' : m.kind = "error" /\ m.text = text

\* C17: a rejected submission shows the message of its outcome and moves the
\* focus as its outcome says: invalid email and mismatch to the email field,
\* empty password to the password field, no account nowhere; the four
\* messages differ from one another.
C17_MessageAndFocusPerOutcome ==
  /\ [][SubmissionHandled =>
          /\ last'.outcome = "RejectedInvalidEmail" =>
               /\ ShowsError("Please enter a valid email address")
               /\ focus' = "email"
          /\ last'.outcome = "RejectedEmptyPassword" =>
               /\ ShowsError("Please enter your password")
               /\ focus' = "password"
          /\ last'.outcome = "RejectedNoAccount" =>
               /\ ShowsError("No account found. Please create an account first.")
               /\ focus' = focus
          /\ last'.outcome = "RejectedMismatch" =>
               /\ ShowsError("Email not found. Please check your email or create an account.")
               /\ focus' = "email"]_vars
  /\ [](\A a \in RejectedOutcomes : \A b \in RejectedOutcomes :
          a # b => RejectMessage(a) # RejectMessage(b))

\* A no-account rejection that left the focus on the password field, where
\* an earlier rejection had put it.
C17_Witness ==
  /\ last.outcome = "RejectedNoAccount"
  /\ focus = "password"
  /\ submits >= 2

\* --------------------------------------------------------------------- C18
\* The dismiss timer of element id is the one that ran in this step.
DismissRan(id) ==
  \E t \in timers :
    /\ t.kind = "dismiss"
    /\ t.el = id
    /\ timers' = timers \ {t}

\* C18: a dismiss timer that runs removes the element it was created for and
\* no other, and raises no fault; a displayed error message has its own
\* timer pending, and a message leaves the form only when its own timer runs
\* or a submission replaces it.
C18_TimerRemovesOnlyItsMessage ==
  /\ [][\A id \in Ids :
          DismissRan(id) =>
            /\ formMsgs' = {m \in formMsgs : m.id # id}
            /\ unhandled' = unhandled]_vars
  /\ [][\A m \in formMsgs :
          m \notin formMsgs' => DismissRan(m.id) \/ SubmissionHandled]_vars
  /\ [](\A m \in formMsgs :
          m.kind = "error" =>
            \E t \in timers : t.kind = "dismiss" /\ t.el = m.id)

\* The timer of the first message ran after the second submission had
\* replaced it, and the second message is still displayed.
C18_Witness ==
  /\ staleFired
  /\ submits = 2
  /\ formMsgs # {}

C20_EffectOrder ==
  /\ [](\A i \in 1..Len(events) :
          /\ events[i].seen.flag = Str(TRUE_STR)
          /\ \A m \in events[i].seen.msgs : m.kind # "success"
          /\ \A t \in events[i].seen.timers : t.kind # "redirect")
  /\ [][SubmissionHandled /\ last'.outcome = "Accepted" /\ ~last'.writeFailed
          => /\ Len(setItemLog') = Len(setItemLog) + 1
             /\ Len(events') = Len(events) + 1
             /\ events'[Len(events')].seen.msgs = formMsgs
             /\ events'[Len(events')].seen.timers = timers
             /\ \E m \in formMsgs' : m.kind = "success" /\ m.id = nextId
             /\ \E t \in timers' : t.kind = "redirect" /\ t.el = nextId + 1
             /\ Flag' = Str(TRUE_STR)]_vars

\* The listeners of the event found an error message of an earlier
\* submission in the form; the success message and the redirect timer came
\* after them.
C20_Witness ==
  /\ Len(events) = 1
  /\ events[1].seen.msgs # {}
  /\ SuccessShown
  /\ RedirectTimers # {}

====
